---------------------------- MODULE Spec2Model ----------------------------
(***************************************************************************)
(* State-machine model of the messenger's real-time coordinator            *)
(* (src/app.py, src/models.py, src/config.py).                             *)
(*                                                                         *)
(* The store is the SQLite database config.py configures by default.  A    *)
(* handler's SELECTs read the committed tables; its first INSERT, UPDATE   *)
(* or DELETE opens a transaction that holds the database's single write    *)
(* lock (dbWriter) until db.session.commit() or rollback().  Socket.IO     *)
(* runs in threading mode (app.py:49): handlers of different connections   *)
(* interleave between any two of their store accesses.  One handler is in  *)
(* flight per connection (sid).                                            *)
(***************************************************************************)
EXTENDS Integers, Sequences, FiniteSets, TLC

VARIABLES
    coins,          \* users.coins, by user id
    status,         \* users.status, by user id
    ledger,         \* coin_transactions rows, in insertion order
    unlocks,        \* dm_unlocks rows, in insertion order
    messages,       \* messages rows, in insertion order
    participants,   \* voice_participants rows, in rowid order
    comments,       \* voice_comments rows, in insertion order
    dbWriter,       \* sid of the handler holding the write lock, or NoSid
    now,            \* datetime.utcnow()
    connUser,       \* identity of each connection (NoUser: closed; Anonymous)
    rooms,          \* Socket.IO rooms each connection has joined
    pc,             \* position of each connection's in-flight handler
    req,            \* the event that handler is processing
    loc,            \* that handler's local variables (its ORM session)
    out,            \* events that handler has emitted, in order
    response        \* what GET /api/messages last answered

dbVars == <<coins, status, ledger, unlocks, messages, participants, comments,
            dbWriter>>
connVars == <<connUser, rooms>>
handlerVars == <<pc, req, loc, out>>
vars == <<coins, status, ledger, unlocks, messages, participants, comments,
          dbWriter, now, connUser, rooms, pc, req, loc, out, response>>

---------------------------------------------------------------------------
(* Program constants *)

MAX_STAGE == 10

DM_FREE_MSG_LIMIT == 3

DEFAULT_COINS == 1000

UNLOCK_DAYS == 30

---------------------------------------------------------------------------
(* Bounds of the model *)

\* clock ticks per day
TicksPerDay == 5

\* single ticks of the clock observed between two days
MaxShortWaits == 1

\* coin_transactions rows
MaxLedger == 2

\* messages rows
MaxMessages == 4

\* messages rows of one thread between two users, counting the one a
\* handler is about to add
MaxThreadMessages == 8

\* messages rows of a thread with gifts, counting the one a handler is about
\* to add
MaxGiftMessages == 5

\* voice_participants rowids handed out beyond the initial rows
MaxJoins == 3

Users == {1, 2, 3}

\* users that hold rows of the voice room from earlier sessions and have no
\* open connection
StageUsers == 101 .. (100 + MAX_STAGE)

NoUser == 0

\* an id the users table has no row for
GhostUser == 9

Sids == {1, 2}

NoSid == 0

VoiceRooms == {1}

\* the user that created voice room 1
RoomCreator == 1

None == 0

\* datetime.min
DATETIME_MIN == -1

---------------------------------------------------------------------------
(* Helpers *)

Digit == <<"0", "1", "2", "3", "4", "5", "6", "7", "8", "9">>

RECURSIVE Str(_)
\* str(n) for a non-negative integer
Str(n) == IF n < 10 THEN Digit[n + 1] ELSE Str(n \div 10) \o Digit[(n % 10) + 1]

VoiceRoomName(room_id) == "voice_" \o Str(room_id)

Ev(name, to, data) == [name |-> name, to |-> to, data |-> data]

\* the smallest member of a set of row positions, or None
MinOf(S) == IF S = {} THEN None ELSE CHOOSE i \in S : \A j \in S : i <= j

RECURSIVE SeqMax(_, _)
SeqMax(table, i) ==
    IF i = 0 THEN 0
    ELSE IF table[i].id > SeqMax(table, i - 1) THEN table[i].id ELSE SeqMax(table, i - 1)

\* SQLite's rowid for an INTEGER PRIMARY KEY: largest rowid in use plus one
NextRowId(table) == SeqMax(table, Len(table)) + 1

Idle(sid) == pc[sid] \in {"idle", "done"}

NoReq == [ev |-> "none"]

NoLoc == [none |-> TRUE]

\* a request without a room field; `if room:` is as false for '' as for None
NoRoom == ""

\* the response variable before any request
NoResponse == [status |-> 0]

\* current_user.is_authenticated
Authenticated(sid) == connUser[sid] \in Users

\* the write lock of the database is free for sid to take
CanWrite(sid) == dbWriter = NoSid

\* a handler's locals end with it
Locals(l, p) == IF p = "done" THEN NoLoc ELSE l

Begin(sid, r, l, p, o) ==
    /\ pc' = [pc EXCEPT ![sid] = p]
    /\ req' = [req EXCEPT ![sid] = r]
    /\ loc' = [loc EXCEPT ![sid] = Locals(l, p)]
    /\ out' = [out EXCEPT ![sid] = o]
    /\ UNCHANGED response

Step(sid, l, p, o) ==
    /\ pc' = [pc EXCEPT ![sid] = p]
    /\ loc' = [loc EXCEPT ![sid] = Locals(l, p)]
    /\ out' = [out EXCEPT ![sid] = out[sid] \o o]
    /\ UNCHANGED <<req, response>>

---------------------------------------------------------------------------
(* connect *)

\* sio_connect with a session that resolves to user u
Connect(sid, u) ==
    /\ connUser[sid] = NoUser
    /\ pc[sid] = "idle"
    /\ connUser' = [connUser EXCEPT ![sid] = u]
    /\ rooms' = [rooms EXCEPT ![sid] = {Str(u), "lobby"}]
    /\ status' = [status EXCEPT ![u] = "online"]
    /\ out' = [out EXCEPT ![sid] = <<Ev("status", "*", <<u, "online">>)>>]
    /\ UNCHANGED <<coins, ledger, unlocks, messages, participants,
                   comments, dbWriter, now, pc, req, loc, response>>

---------------------------------------------------------------------------
(* Voice rooms *)

\* positions of the rows of user_id in room_id
VpRows(room_id, user_id) ==
    {i \in DOMAIN participants :
        participants[i].room_id = room_id /\ participants[i].user_id = user_id}

FirstVpMut(room_id, user_id) == None

\* Query.first() of filter_by(room_id, user_id): first row in rowid order
FirstVp(room_id, user_id) == MinOf(VpRows(room_id, user_id))

\* position of the row with primary key id, or None
VpById(id) == MinOf({i \in DOMAIN participants : participants[i].id = id})

\* VoiceParticipant.query.filter_by(room_id, role="speaker").count()
SpeakerCount(room_id) ==
    Cardinality({i \in DOMAIN participants :
        participants[i].room_id = room_id /\ participants[i].role = "speaker"})

StageIsFullMut(speakers) == speakers > MAX_STAGE

\* speakers >= MAX_STAGE
StageIsFull(speakers) == speakers >= MAX_STAGE

\* sio_voice_stage_decision up to its first query
VoiceStageDecision(sid, room_id, target_id, accept) ==
    /\ Idle(sid)
    /\ Authenticated(sid)
    /\ LET r == [ev |-> "voice_stage_decision", room_id |-> room_id,
                 user_id |-> target_id, accept |-> accept]
           speakers == SpeakerCount(room_id)
       IN  IF ~accept
           THEN Begin(sid, r, NoLoc, "done",
                      <<Ev("voice_stage_denied", Str(target_id), <<target_id>>)>>)
           ELSE IF StageIsFull(speakers)
           THEN Begin(sid, r, [speakers |-> speakers], "done",
                      <<Ev("voice_stage_full", Str(target_id), <<>>)>>)
           ELSE Begin(sid, r, [speakers |-> speakers], "vsd_get", <<>>)
    /\ UNCHANGED <<dbVars, now, connVars>>

\* vp = VoiceParticipant.query.filter_by(room_id, user_id=target_id).first()
VsdGet(sid) ==
    /\ pc[sid] = "vsd_get"
    /\ LET i == FirstVp(req[sid].room_id, req[sid].user_id)
       IN  IF i = None
           THEN Step(sid, loc[sid], "done",
                     <<Ev("voice_stage_granted", VoiceRoomName(req[sid].room_id),
                          <<req[sid].user_id>>)>>)
           ELSE Step(sid, [speakers |-> loc[sid].speakers,
                           vp |-> participants[i].id,
                           role |-> participants[i].role], "vsd_commit", <<>>)
    /\ UNCHANGED <<dbVars, now, connVars>>

\* vp.role = "speaker"; db.session.commit(); emit, or the rollback of the
\* except branch when the row is gone
VsdCommit(sid) ==
    /\ pc[sid] = "vsd_commit"
    /\ LET granted == <<Ev("voice_stage_granted", VoiceRoomName(req[sid].room_id),
                           <<req[sid].user_id>>)>>
           i == VpById(loc[sid].vp)
       IN  IF loc[sid].role = "speaker"
           THEN /\ Step(sid, loc[sid], "done", granted)
                /\ UNCHANGED participants
           ELSE /\ CanWrite(sid)
                /\ IF i = None
                   THEN /\ Step(sid, loc[sid], "done", <<>>)
                        /\ UNCHANGED participants
                   ELSE /\ participants' = [participants EXCEPT ![i].role = "speaker"]
                        /\ Step(sid, loc[sid], "done", granted)
    /\ UNCHANGED <<coins, status, ledger, unlocks, messages, comments,
                   dbWriter, now, connVars>>

\* sio_voice_join up to its query
VoiceJoin(sid, room_id) ==
    /\ Idle(sid)
    /\ Authenticated(sid)
    /\ rooms' = [rooms EXCEPT ![sid] = @ \cup {VoiceRoomName(room_id)}]
    /\ LET r == [ev |-> "voice_join", room_id |-> room_id]
           i == FirstVp(room_id, connUser[sid])
       IN  IF i = None
           THEN Begin(sid, r, NoLoc, "vj_insert", <<>>)
           ELSE Begin(sid, r, [vp |-> participants[i].id], "done",
                      <<Ev("voice_user_joined", VoiceRoomName(room_id),
                           <<connUser[sid], participants[i].role>>)>>)
    /\ UNCHANGED <<dbVars, now, connUser>>

\* db.session.add(vp); db.session.commit()
VjInsert(sid) ==
    /\ pc[sid] = "vj_insert"
    /\ CanWrite(sid)
    /\ NextRowId(participants) <= MAX_STAGE + 1 + MaxJoins
    /\ LET id == NextRowId(participants)
       IN  /\ participants' = Append(participants,
                  [id |-> id, room_id |-> req[sid].room_id,
                   user_id |-> connUser[sid], role |-> "listener"])
           /\ Step(sid, [vp |-> id], "vj_emit", <<>>)
    /\ UNCHANGED <<coins, status, ledger, unlocks, messages, comments,
                   dbWriter, now, connVars>>

\* emit voice_user_joined with vp.role, which the commit has expired and
\* the emit reloads
VjEmit(sid) ==
    /\ pc[sid] = "vj_emit"
    /\ LET i == VpById(loc[sid].vp)
       IN  IF i = None
           THEN Step(sid, loc[sid], "done",
                     <<Ev("blocked_message", Str(connUser[sid]),
                          <<"Error joining voice room.">>)>>)
           ELSE Step(sid, loc[sid], "done",
                     <<Ev("voice_user_joined", VoiceRoomName(req[sid].room_id),
                          <<connUser[sid], participants[i].role>>)>>)
    /\ UNCHANGED <<dbVars, now, connVars>>

\* sio_voice_leave: leave_room
VoiceLeave(sid, room_id) ==
    /\ Idle(sid)
    /\ Authenticated(sid)
    /\ rooms' = [rooms EXCEPT ![sid] = @ \ {VoiceRoomName(room_id)}]
    /\ Begin(sid, [ev |-> "voice_leave", room_id |-> room_id], NoLoc, "vl_delete", <<>>)
    /\ UNCHANGED <<dbVars, now, connUser>>

VlDeleteMut(sid) ==
    /\ pc[sid] = "vl_delete"
    /\ Step(sid, loc[sid], "done",
            <<Ev("voice_user_left", VoiceRoomName(req[sid].room_id), <<connUser[sid]>>)>>)
    /\ UNCHANGED <<dbVars, now, connVars>>

\* VoiceParticipant.query.filter_by(...).delete(); commit; emit
VlDelete(sid) ==
    /\ pc[sid] = "vl_delete"
    /\ CanWrite(sid)
    /\ participants' = SelectSeq(participants,
           LAMBDA r : ~(r.room_id = req[sid].room_id /\ r.user_id = connUser[sid]))
    /\ Step(sid, loc[sid], "done",
            <<Ev("voice_user_left", VoiceRoomName(req[sid].room_id), <<connUser[sid]>>)>>)
    /\ UNCHANGED <<coins, status, ledger, unlocks, messages, comments,
                   dbWriter, now, connVars>>

---------------------------------------------------------------------------
(* Initial states *)

\* api_create_room's rows for voice room 1 (the creator is its host), and
\* the rows of n speakers promoted in earlier sessions
InitParticipants(n) ==
    [i \in 1 .. (n + 1) |->
        IF i = 1
        THEN [id |-> 1, room_id |-> 1, user_id |-> RoomCreator, role |-> "host"]
        ELSE [id |-> i, room_id |-> 1, user_id |-> 100 + (i - 1), role |-> "speaker"]]

InitWith(n) ==
    /\ coins = [u \in Users |-> DEFAULT_COINS]
    /\ status = [u \in Users |-> "offline"]
    /\ ledger = <<>>
    /\ unlocks = <<>>
    /\ messages = <<>>
    /\ participants = InitParticipants(n)
    /\ comments = <<>>
    /\ dbWriter = NoSid
    /\ now = 0
    /\ connUser = [s \in Sids |-> NoUser]
    /\ rooms = [s \in Sids |-> {}]
    /\ pc = [s \in Sids |-> "idle"]
    /\ req = [s \in Sids |-> NoReq]
    /\ loc = [s \in Sids |-> NoLoc]
    /\ out = [s \in Sids |-> <<>>]
    /\ response = NoResponse

InitVoice == \E n \in {MAX_STAGE - 1, MAX_STAGE} : InitWith(n)

NextVoice ==
    \/ \E sid \in Sids, u \in Users : Connect(sid, u)
    \/ \E sid \in Sids, room_id \in VoiceRooms, target_id \in Users, accept \in BOOLEAN :
          VoiceStageDecision(sid, room_id, target_id, accept)
    \/ \E sid \in Sids : VsdGet(sid)
    \/ \E sid \in Sids : VsdCommit(sid)
    \/ \E sid \in Sids, room_id \in VoiceRooms : VoiceJoin(sid, room_id)
    \/ \E sid \in Sids : VjInsert(sid)
    \/ \E sid \in Sids : VjEmit(sid)

SpecVoice == InitVoice /\ [][NextVoice]_vars

---------------------------------------------------------------------------
(* Claims about the voice stage *)

\* C1: under any interleaving of voice_stage_decision(accept) handlers the
\* number of speakers of a room never exceeds MAX_STAGE.
C1_SpeakersWithinCap == \A r \in VoiceRooms : SpeakerCount(r) <= MAX_STAGE

\* sid's handler starts a voice_stage_decision(accept) in this step while the
\* room holds at least MAX_STAGE speakers
AcceptsAtFullStage(sid) ==
    /\ Idle(sid)
    /\ <<pc[sid], req[sid], loc[sid], out[sid]>> # <<pc'[sid], req'[sid], loc'[sid], out'[sid]>>
    /\ req'[sid].ev = "voice_stage_decision"
    /\ req'[sid].accept
    /\ SpeakerCount(req'[sid].room_id) >= MAX_STAGE

\* C9: a stage decision that accepts while the room's speaker count is at
\* least MAX_STAGE emits voice_stage_full to the target, ends, and changes no
\* participant row.
C9_FullStageRejects ==
    [][\A sid \in Sids : AcceptsAtFullStage(sid) =>
          /\ participants' = participants
          /\ pc'[sid] = "done"
          /\ out'[sid] = <<Ev("voice_stage_full", Str(req'[sid].user_id), <<>>)>>]_vars

\* a listener was refused the stage of a full room
C9_Witness ==
    \E sid \in Sids :
        /\ pc[sid] = "done"
        /\ req[sid].ev = "voice_stage_decision"
        /\ req[sid].accept
        /\ out[sid] = <<Ev("voice_stage_full", Str(req[sid].user_id), <<>>)>>
        /\ SpeakerCount(req[sid].room_id) >= MAX_STAGE
        /\ \E i \in VpRows(req[sid].room_id, req[sid].user_id) :
              participants[i].role = "listener"

---------------------------------------------------------------------------
(* Clock *)

\* timedelta(days=30), in clock ticks
UNLOCK_TTL == UNLOCK_DAYS * TicksPerDay

\* the clock is not advanced past the lifetime of an unlock granted while
\* the messages of a thread with gifts were sent
MaxClock == UNLOCK_TTL + MaxGiftMessages

\* time passes between two handler steps: one tick, or the lifetime of an
\* unlock
PassTime(d) ==
    /\ IF d = 1 THEN (now % UNLOCK_TTL) < MaxShortWaits ELSE d = UNLOCK_TTL
    /\ now + d <= MaxClock
    /\ now' = now + d
    /\ UNCHANGED <<dbVars, connVars, handlerVars, response>>

---------------------------------------------------------------------------
(* send_coins *)

\* positions of the dm_unlocks rows user_id -> target_id
UnlockRows(user_id, target_id) ==
    {i \in DOMAIN unlocks :
        unlocks[i].user_id = user_id /\ unlocks[i].target_id = target_id}

FirstUnlockMut(user_id, target_id) == MinOf(UnlockRows(target_id, user_id))

\* DMUnlock.query.filter_by(user_id, target_id).first()
FirstUnlock(user_id, target_id) == MinOf(UnlockRows(user_id, target_id))

InvalidAmountMut(amount) == amount < 0

\* amount <= 0
InvalidAmount(amount) == amount <= 0

InsufficientFundsMut(balance, amount) == balance <= 0

\* current_user.coins < amount
InsufficientFunds(balance, amount) == balance < amount

\* a send_coins handler of another connection has passed its checks and has
\* not yet committed
CoinsInFlight == Cardinality({s \in Sids : pc[s] \in {"sc_get", "sc_flush", "sc_commit"}})

\* sio_send_coins up to User.query.get(to_id); current_user was loaded by
\* authenticated_only
SendCoins(sid, to_id, amount) ==
    /\ Idle(sid)
    /\ Authenticated(sid)
    /\ Len(ledger) + CoinsInFlight < MaxLedger
    /\ LET r == [ev |-> "send_coins", to |-> to_id, amount |-> amount]
           me == connUser[sid]
       IN  IF InvalidAmount(amount)
           THEN Begin(sid, r, NoLoc, "done", <<>>)
           ELSE IF InsufficientFunds(coins[me], amount)
           THEN Begin(sid, r, [my_coins |-> coins[me]], "done",
                      <<Ev("blocked_message", Str(me), <<"Not enough coins.">>)>>)
           ELSE Begin(sid, r, [my_coins |-> coins[me]], "sc_get", <<>>)
    /\ UNCHANGED <<dbVars, now, connVars>>

\* recipient = User.query.get(to_id); when to_id is the sender this is
\* current_user's own object and nothing is read
ScGet(sid) ==
    /\ pc[sid] = "sc_get"
    /\ LET me == connUser[sid]
           to_id == req[sid].to
       IN  IF to_id \notin Users
           THEN Step(sid, loc[sid], "done",
                     <<Ev("blocked_message", Str(me), <<"User not found.">>)>>)
           ELSE Step(sid,
                     [my_coins |-> loc[sid].my_coins,
                      to_coins |-> IF to_id = me THEN loc[sid].my_coins ELSE coins[to_id]],
                     "sc_flush", <<>>)
    /\ UNCHANGED <<dbVars, now, connVars>>

\* the unlock query: its autoflush sends the pending UPDATEs and the INSERT
\* of the transaction, which takes the write lock; then the SELECT
ScFlush(sid) ==
    /\ pc[sid] = "sc_flush"
    /\ CanWrite(sid)
    /\ dbWriter' = sid
    /\ LET i == FirstUnlock(connUser[sid], req[sid].to)
       IN  Step(sid, [my_coins |-> loc[sid].my_coins, to_coins |-> loc[sid].to_coins,
                      unlock |-> i],
                "sc_commit", <<>>)
    /\ UNCHANGED <<coins, status, ledger, unlocks, messages, participants,
                   comments, now, connVars>>

\* users.coins once the transaction's UPDATEs are committed:
\* current_user.coins -= amount; recipient.coins += amount, each on the value
\* the handler loaded.  Sender and recipient being one object, its value ends
\* as loaded and no UPDATE is sent
CoinsAfter(sid) ==
    IF req[sid].to = connUser[sid]
    THEN coins
    ELSE [coins EXCEPT ![connUser[sid]] = loc[sid].my_coins - req[sid].amount,
                       ![req[sid].to] = loc[sid].to_coins + req[sid].amount]

LedgerAfterMut(sid) == ledger

\* coin_transactions once the transaction's INSERT is committed
LedgerAfter(sid) ==
    Append(ledger, [from_id |-> connUser[sid], to_id |-> req[sid].to,
                    amount |-> req[sid].amount])

UnlocksAfterMut(sid) == unlocks

\* dm_unlocks once the new row, or the row's new expires_at
\* (datetime.utcnow() + timedelta(days=30)), is committed
UnlocksAfter(sid) ==
    IF loc[sid].unlock = None
    THEN Append(unlocks, [user_id |-> connUser[sid], target_id |-> req[sid].to,
                          expires_at |-> now + UNLOCK_TTL])
    ELSE [unlocks EXCEPT ![loc[sid].unlock].expires_at = now + UNLOCK_TTL]

\* the assignments after the query, and db.session.commit()
ScCommit(sid) ==
    /\ pc[sid] = "sc_commit"
    /\ dbWriter = sid
    /\ coins' = CoinsAfter(sid)
    /\ ledger' = LedgerAfter(sid)
    /\ unlocks' = UnlocksAfter(sid)
    /\ dbWriter' = NoSid
    /\ Step(sid, loc[sid], "sc_emit", <<>>)
    /\ UNCHANGED <<status, messages, participants, comments, now, connVars>>

\* the two coins_update events; the commit has expired both objects, so
\* .coins is read again
ScEmit(sid) ==
    /\ pc[sid] = "sc_emit"
    /\ LET me == connUser[sid]
           to_id == req[sid].to
       IN  Step(sid, loc[sid], "done",
                <<Ev("coins_update", Str(me), <<me, coins[me]>>),
                  Ev("coins_update", Str(to_id), <<to_id, coins[to_id]>>)>>)
    /\ UNCHANGED <<dbVars, now, connVars>>

\* the except branch: the flush finds the database locked until its busy
\* timeout, or the commit fails; db.session.rollback() and one event
ScFail(sid) ==
    /\ \/ pc[sid] = "sc_flush" /\ dbWriter \notin {NoSid, sid}
       \/ pc[sid] = "sc_commit" /\ dbWriter = sid
    /\ dbWriter' = IF dbWriter = sid THEN NoSid ELSE dbWriter
    /\ Step(sid, loc[sid], "done",
            <<Ev("blocked_message", Str(connUser[sid]), <<"Error sending coins.">>)>>)
    /\ UNCHANGED <<coins, status, ledger, unlocks, messages, participants,
                   comments, now, connVars>>

Amounts == {0, 400, 700}

\* the users that connect and the ids coins are sent to
Payers == {1, 2}

Payees == {1, 2, GhostUser}

NextCoins ==
    \/ \E sid \in Sids, u \in Payers : Connect(sid, u)
    \/ PassTime(1)
    \/ \E sid \in Sids, to_id \in Payees, amount \in Amounts :
          SendCoins(sid, to_id, amount)
    \/ \E sid \in Sids : ScGet(sid)
    \/ \E sid \in Sids : ScFlush(sid)
    \/ \E sid \in Sids : ScCommit(sid)
    \/ \E sid \in Sids : ScEmit(sid)
    \/ \E sid \in Sids : ScFail(sid)

InitCoins == InitWith(0)

SpecCoins == InitCoins /\ [][NextCoins]_vars

---------------------------------------------------------------------------
(* Claims about coin transfers *)

\* sid's handler takes a step
HandlerStep(sid) ==
    <<pc[sid], req[sid], loc[sid], out[sid]>> # <<pc'[sid], req'[sid], loc'[sid], out'[sid]>>

\* sid's handler takes a step of a send_coins event
SendCoinsStep(sid) == HandlerStep(sid) /\ req'[sid].ev = "send_coins"

\* the step leaves balances, ledger and unlocks as they are
NoCoinEffect == coins' = coins /\ ledger' = ledger /\ unlocks' = unlocks

NotEnoughCoins(u) == <<Ev("blocked_message", Str(u), <<"Not enough coins.">>)>>

UserNotFound(u) == <<Ev("blocked_message", Str(u), <<"User not found.">>)>>

\* C2: every balance stays >= 0, and every appended CoinTransaction has an
\* amount <= the payer's stored balance at the moment its debit is committed.
C2_DebitsCoveredByBalance ==
    [][/\ \A u \in Users : coins'[u] >= 0
       /\ ledger' # ledger =>
            ledger'[Len(ledger')].amount <= coins[ledger'[Len(ledger')].from_id]]_vars

RECURSIVE NetOfLedger(_, _)
\* what the first i ledger rows add to (payee) and take from (payer) user u
NetOfLedger(u, i) ==
    IF i = 0 THEN 0
    ELSE NetOfLedger(u, i - 1)
         + (IF ledger[i].to_id = u THEN ledger[i].amount ELSE 0)
         - (IF ledger[i].from_id = u THEN ledger[i].amount ELSE 0)

\* C3: once all send_coins handlers have completed, every balance equals the
\* initial balance plus the ledger amounts received minus the ledger amounts
\* sent.
C3_BalancesMatchLedger ==
    (\A sid \in Sids : Idle(sid)) =>
        \A u \in Users : coins[u] = DEFAULT_COINS + NetOfLedger(u, Len(ledger))

\* C4: whenever a committed state changes a balance, the ledger or an unlock,
\* it is by one transfer (payer, payee, amount) whose four effects appear
\* together: payer debited by amount, payee credited by amount, one ledger
\* row appended, and the unlock payer -> payee present with expiry now + 30
\* days.
C4_TransferEffectsTogether ==
    [][~NoCoinEffect =>
         \E p \in Users, q \in Users, a \in Amounts :
            /\ coins' = [coins EXCEPT ![p] = @ - a, ![q] = @ + a]
            /\ ledger' = Append(ledger, [from_id |-> p, to_id |-> q, amount |-> a])
            /\ \E i \in DOMAIN unlocks' :
                  /\ unlocks'[i] = [user_id |-> p, target_id |-> q,
                                    expires_at |-> now + UNLOCK_TTL]
                  /\ \A j \in DOMAIN unlocks : j # i => unlocks'[j] = unlocks[j]
                  /\ Len(unlocks') = IF i \in DOMAIN unlocks THEN Len(unlocks)
                                     ELSE Len(unlocks) + 1]_vars

\* C5: a send_coins whose amount exceeds the sender's balance is rejected with
\* "Not enough coins." to the sender and leaves balances, ledger and unlocks
\* unchanged, every time it is sent.
C5_InsufficientFundsIsNoOp ==
    [][\A sid \in Sids :
          (/\ SendCoinsStep(sid)
           /\ Idle(sid)
           /\ req'[sid].amount > coins[connUser[sid]]) =>
              /\ NoCoinEffect
              /\ pc'[sid] = "done"
              /\ out'[sid] = NotEnoughCoins(connUser[sid])]_vars

\* the same over-sized transfer was rejected on both connections of a user
C5_Witness ==
    /\ \A sid \in Sids :
          /\ pc[sid] = "done"
          /\ req[sid].ev = "send_coins"
          /\ req[sid].amount > coins[connUser[sid]]
          /\ out[sid] = NotEnoughCoins(connUser[sid])
    /\ \A s1 \in Sids, s2 \in Sids : req[s1] = req[s2] /\ connUser[s1] = connUser[s2]

\* C6 as stated: amount <= 0 is rejected, a payee id without a row is
\* rejected as unknown recipient, and neither changes balances, ledger or
\* unlocks.
C6_RejectionsAsStated ==
    [][\A sid \in Sids : SendCoinsStep(sid) =>
          /\ req'[sid].amount <= 0 =>
                NoCoinEffect /\ pc'[sid] = "done" /\ out'[sid] = <<>>
          /\ (req'[sid].amount > 0 /\ req'[sid].to \notin Users) =>
                /\ NoCoinEffect
                /\ pc'[sid] = "done" => out'[sid] = UserNotFound(connUser[sid])]_vars

\* C6 amended: amount <= 0 is dropped; a payee id without a row is rejected as
\* unknown recipient when the sender's balance covers the amount, and as
\* insufficient funds when it does not; none changes balances, ledger or
\* unlocks.
C6_RejectionsInCheckOrder ==
    [][\A sid \in Sids : SendCoinsStep(sid) =>
          /\ req'[sid].amount <= 0 =>
                NoCoinEffect /\ pc'[sid] = "done" /\ out'[sid] = <<>>
          /\ (req'[sid].amount > 0 /\ req'[sid].to \notin Users) =>
                /\ NoCoinEffect
                /\ Idle(sid) =>
                      IF req'[sid].amount > coins[connUser[sid]]
                      THEN pc'[sid] = "done" /\ out'[sid] = NotEnoughCoins(connUser[sid])
                      ELSE pc'[sid] = "sc_get" /\ out'[sid] = <<>>
                /\ ~Idle(sid) =>
                      pc'[sid] = "done" /\ out'[sid] = UserNotFound(connUser[sid])]_vars

\* one connection's non-positive amount was dropped and the other's transfer
\* to an unknown id was rejected
C6_Witness ==
    \E s1 \in Sids, s2 \in Sids :
        /\ pc[s1] = "done" /\ req[s1].ev = "send_coins"
        /\ req[s1].amount <= 0 /\ out[s1] = <<>>
        /\ pc[s2] = "done" /\ req[s2].ev = "send_coins"
        /\ req[s2].amount > 0 /\ req[s2].to \notin Users
        /\ out[s2] = UserNotFound(connUser[s2])

\* ledger rows from p to q
Transfers(p, q) == {i \in DOMAIN ledger : ledger[i].from_id = p /\ ledger[i].to_id = q}

UniqueUnlocks == \A p \in Users, q \in Users : Cardinality(UnlockRows(p, q)) <= 1

\* C7: every (granter, target) pair has at most one dm_unlocks row, and a
\* transfer to a target that already has the row refreshes its expiry
\* instead of adding a row, also when transfers of one pair run concurrently.
C7_OneUnlockPerPair ==
    [][/\ UniqueUnlocks'
       /\ ledger' # ledger =>
            LET tx == ledger'[Len(ledger')]
                old == UnlockRows(tx.from_id, tx.to_id)
            IN  IF old = {}
                THEN Len(unlocks') = Len(unlocks) + 1
                ELSE /\ Len(unlocks') = Len(unlocks)
                     /\ \A i \in old : unlocks'[i].expires_at = now + UNLOCK_TTL]_vars

\* two transfers of one pair are committed, the second later than the first,
\* and the pair's single row carries the later expiry
C7_Witness ==
    \E p \in Users, q \in Users :
        /\ Cardinality(Transfers(p, q)) = 2
        /\ Cardinality(UnlockRows(p, q)) = 1
        /\ \A i \in UnlockRows(p, q) : unlocks[i].expires_at = 1 + UNLOCK_TTL

---------------------------------------------------------------------------
(* send_message *)

\* the room of one connection, request.sid
SidRoom(sid) == "sid_" \o Str(sid)

UnlockActiveMut(i) == i # None

\* unlock and (not unlock.expires_at or unlock.expires_at > datetime.utcnow())
UnlockActive(i) ==
    i # None /\ (unlocks[i].expires_at = None \/ unlocks[i].expires_at > now)

\* positions of the messages sender_id sent to recipient_id
Sent(sender_id, recipient_id) ==
    {i \in DOMAIN messages :
        messages[i].sender_id = sender_id /\ messages[i].recipient_id = recipient_id}

\* created_at of the last message recipient_id sent to sender_id, or
\* datetime.min
LastReplyAt(sender_id, recipient_id) ==
    IF Sent(recipient_id, sender_id) = {} THEN DATETIME_MIN
    ELSE LET i == CHOOSE i \in Sent(recipient_id, sender_id) :
                    \A j \in Sent(recipient_id, sender_id) :
                        messages[j].created_at <= messages[i].created_at
         IN  messages[i].created_at

SentSinceMut(sender_id, recipient_id, since) ==
    Cardinality(Sent(sender_id, recipient_id))

\* the count query of dm_allowed
SentSince(sender_id, recipient_id, since) ==
    Cardinality({i \in Sent(sender_id, recipient_id) : messages[i].created_at > since})

UnderFreeLimitMut(count) == count <= DM_FREE_MSG_LIMIT

\* count < DM_FREE_MSG_LIMIT
UnderFreeLimit(count) == count < DM_FREE_MSG_LIMIT

\* send_message handlers that have passed, or may still pass, the gate
MessagesInFlight ==
    Cardinality({s \in Sids : pc[s] \in {"dm_unlock", "dm_reply", "dm_count", "sm_insert"}})

\* sio_send_message up to the DM gate
SendMessage(sid, body, recipient_id, room) ==
    /\ Idle(sid)
    /\ connUser[sid] # NoUser
    /\ LET r == [ev |-> "send_message", body |-> body,
                 recipient_id |-> recipient_id, room |-> room]
       IN  IF ~Authenticated(sid)
           THEN Begin(sid, r, NoLoc, "done",
                      <<Ev("blocked_message", SidRoom(sid), <<"Not authenticated.">>)>>)
           ELSE IF body = ""
           THEN Begin(sid, r, NoLoc, "done", <<>>)
           ELSE IF recipient_id # None
           THEN Begin(sid, r, NoLoc, "dm_unlock", <<>>)
           ELSE Begin(sid, r, NoLoc, "sm_insert", <<>>)
    /\ UNCHANGED <<dbVars, now, connVars>>

\* dm_allowed: the unlock query
DmUnlock(sid) ==
    /\ pc[sid] = "dm_unlock"
    /\ IF UnlockActive(FirstUnlock(connUser[sid], req[sid].recipient_id))
       THEN Step(sid, loc[sid], "sm_insert", <<>>)
       ELSE Step(sid, loc[sid], "dm_reply", <<>>)
    /\ UNCHANGED <<dbVars, now, connVars>>

\* dm_allowed: the last_reply query
DmLastReply(sid) ==
    /\ pc[sid] = "dm_reply"
    /\ Step(sid, [since |-> LastReplyAt(connUser[sid], req[sid].recipient_id)],
            "dm_count", <<>>)
    /\ UNCHANGED <<dbVars, now, connVars>>

\* dm_allowed: the count query, and the DM gate of sio_send_message
DmCount(sid) ==
    /\ pc[sid] = "dm_count"
    /\ IF UnderFreeLimit(SentSince(connUser[sid], req[sid].recipient_id, loc[sid].since))
       THEN Step(sid, loc[sid], "sm_insert", <<>>)
       ELSE Step(sid, loc[sid], "done",
                 <<Ev("blocked_message", Str(connUser[sid]),
                      <<"You must receive a response or send coins to unlock.">>)>>)
    /\ UNCHANGED <<dbVars, now, connVars>>

\* db.session.add(msg); db.session.commit(); created_at is the clock's value,
\* and later readings of the clock are later
SmInsert(sid) ==
    /\ pc[sid] = "sm_insert"
    /\ CanWrite(sid)
    /\ messages' = Append(messages,
           [id |-> Len(messages) + 1, sender_id |-> connUser[sid],
            recipient_id |-> req[sid].recipient_id, room |-> req[sid].room,
            created_at |-> now])
    /\ now' = now + 1
    /\ Step(sid, [msg |-> Len(messages) + 1], "sm_emit", <<>>)
    /\ UNCHANGED <<coins, status, ledger, unlocks, participants, comments,
                   dbWriter, connVars>>

\* where sio_send_message emits new_message
MessageTargets(sender_id, recipient_id, room) ==
    IF room # NoRoom THEN <<room>>
    ELSE IF recipient_id # None THEN <<Str(recipient_id), Str(sender_id)>>
    ELSE <<"lobby">>

\* the emits of new_message
SmEmit(sid) ==
    /\ pc[sid] = "sm_emit"
    /\ LET to == MessageTargets(connUser[sid], req[sid].recipient_id, req[sid].room)
       IN  Step(sid, loc[sid], "done",
                [k \in DOMAIN to |-> Ev("new_message", to[k], <<loc[sid].msg>>)])
    /\ UNCHANGED <<dbVars, now, connVars>>

\* the except branch: the INSERT finds the database locked until its busy
\* timeout; db.session.rollback() and one event to request.sid
SmFail(sid) ==
    /\ pc[sid] = "sm_insert"
    /\ dbWriter \notin {NoSid, sid}
    /\ Step(sid, loc[sid], "done",
            <<Ev("blocked_message", SidRoom(sid), <<"Error sending message.">>)>>)
    /\ UNCHANGED <<dbVars, now, connVars>>

\* the bodies sent in the direct-message specification: blank, and not
Bodies == {"", "hi"}

\* connections exchange direct messages and coins with the other user
NextDM ==
    \/ \E sid \in Sids, u \in Payers : Connect(sid, u)
    \/ \E sid \in Sids, body \in Bodies :
          /\ Len(messages) + MessagesInFlight < MaxMessages
          /\ \E to_id \in Payers \ {connUser[sid]} : SendMessage(sid, body, to_id, NoRoom)
    \/ \E sid \in Sids : DmUnlock(sid)
    \/ \E sid \in Sids : DmLastReply(sid)
    \/ \E sid \in Sids : DmCount(sid)
    \/ \E sid \in Sids : SmInsert(sid)
    \/ \E sid \in Sids : SmEmit(sid)
    \/ \E sid \in Sids : SmFail(sid)
    \/ \E sid \in Sids :
          \E to_id \in Payers \ {connUser[sid]} : SendCoins(sid, to_id, 400)
    \/ \E sid \in Sids : ScGet(sid)
    \/ \E sid \in Sids : ScFlush(sid)
    \/ \E sid \in Sids : ScCommit(sid)
    \/ \E sid \in Sids : ScEmit(sid)
    \/ \E sid \in Sids : ScFail(sid)

InitDM == InitWith(0)

SpecDM == InitDM /\ [][NextDM]_vars

---------------------------------------------------------------------------
(* Claims about the direct-message gate *)

Blocked(u) ==
    <<Ev("blocked_message", Str(u),
         <<"You must receive a response or send coins to unlock.">>)>>

\* sender connUser[sid] has no unlock row for the recipient of sid's message
\* and the recipient has sent the sender nothing
NoUnlockNoReply(sid) ==
    /\ UnlockRows(connUser[sid], req[sid].recipient_id) = {}
    /\ Sent(req[sid].recipient_id, connUser[sid]) = {}

\* C10: for a pair with no unlock row and no message from recipient to
\* sender, the gate lets a direct message through while fewer than 3
\* sender -> recipient messages are persisted and blocks it, persisting
\* nothing and emitting blocked_message to the sender, when 3 are; a message
\* let through is persisted and emitted to recipient and sender unless the
\* store refuses the write.
C10_ThreeFreeMessages ==
    [][\A sid \in Sids :
          LET s == connUser[sid]
              r == req[sid].recipient_id
          IN  /\ (pc[sid] = "dm_count" /\ HandlerStep(sid) /\ NoUnlockNoReply(sid)) =>
                    /\ messages' = messages
                    /\ Cardinality(Sent(s, r)) < 3 => pc'[sid] = "sm_insert"
                    /\ Cardinality(Sent(s, r)) = 3 =>
                          pc'[sid] = "done" /\ out'[sid] = Blocked(s)
              /\ (pc[sid] = "sm_insert" /\ HandlerStep(sid)) =>
                    \/ /\ pc'[sid] = "sm_emit"
                       /\ Len(messages') = Len(messages) + 1
                       /\ messages'[Len(messages')].sender_id = s
                       /\ messages'[Len(messages')].recipient_id = r
                    \/ /\ dbWriter # NoSid
                       /\ messages' = messages
                       /\ pc'[sid] = "done"
              /\ (pc[sid] = "sm_emit" /\ HandlerStep(sid) /\ r # None) =>
                    /\ pc'[sid] = "done"
                    /\ out'[sid] = <<Ev("new_message", Str(r), <<loc[sid].msg>>),
                                     Ev("new_message", Str(s), <<loc[sid].msg>>)>>]_vars

\* the sender's fourth unanswered message was blocked, three being persisted
C10_Witness ==
    \E sid \in Sids :
        /\ pc[sid] = "done"
        /\ req[sid].ev = "send_message"
        /\ out[sid] = Blocked(connUser[sid])
        /\ NoUnlockNoReply(sid)
        /\ Cardinality(Sent(connUser[sid], req[sid].recipient_id)) = 3

---------------------------------------------------------------------------
(* All events together *)

\* messages rows in the specification of all events
MaxEventMessages == 1

\* user 1 on connection 1 and user 2 on connection 2 send each other
\* messages and coins and share voice room 1
NextEvents ==
    \/ \E sid \in Sids : Connect(sid, sid)
    \/ \E sid \in Sids :
          /\ Len(messages) + MessagesInFlight < MaxEventMessages
          /\ \E to_id \in Payers \ {connUser[sid]} : SendMessage(sid, "hi", to_id, NoRoom)
    \/ \E sid \in Sids : DmUnlock(sid)
    \/ \E sid \in Sids : DmLastReply(sid)
    \/ \E sid \in Sids : DmCount(sid)
    \/ \E sid \in Sids : SmInsert(sid)
    \/ \E sid \in Sids : SmEmit(sid)
    \/ \E sid \in Sids : SmFail(sid)
    \/ \E sid \in Sids :
          \E to_id \in Payers \ {connUser[sid]} : SendCoins(sid, to_id, 400)
    \/ \E sid \in Sids : ScGet(sid)
    \/ \E sid \in Sids : ScFlush(sid)
    \/ \E sid \in Sids : ScCommit(sid)
    \/ \E sid \in Sids : ScEmit(sid)
    \/ \E sid \in Sids : ScFail(sid)
    \/ \E sid \in Sids, room_id \in VoiceRooms : VoiceJoin(sid, room_id)
    \/ \E sid \in Sids : VjInsert(sid)
    \/ \E sid \in Sids : VjEmit(sid)
    \/ \E sid \in Sids, room_id \in VoiceRooms :
          VoiceStageDecision(sid, room_id, connUser[sid], TRUE)
    \/ \E sid \in Sids : VsdGet(sid)
    \/ \E sid \in Sids : VsdCommit(sid)

InitEvents == InitWith(0)

SpecEvents == InitEvents /\ [][NextEvents]_vars

\* every dm_unlocks row has a ledger row of its pair
UnlocksHaveTransfers ==
    \A i \in DOMAIN unlocks : Transfers(unlocks[i].user_id, unlocks[i].target_id) # {}

\* C8: every dm_unlocks row p -> q is accompanied by a committed
\* CoinTransaction from p to q, and only the commit of a send_coins handler,
\* which appends that transaction, creates or refreshes a dm_unlocks row.
C8_UnlocksOnlyFromTransfers ==
    [][/\ UnlocksHaveTransfers'
       /\ unlocks' # unlocks =>
            \E sid \in Sids :
               /\ req[sid].ev = "send_coins"
               /\ pc[sid] = "sc_commit"
               /\ pc'[sid] = "sc_emit"
               /\ ledger' = Append(ledger, [from_id |-> connUser[sid],
                                           to_id |-> req[sid].to,
                                           amount |-> req[sid].amount])]_vars

\* an unlock exists beside persisted messages and a joined voice room
C8_Witness ==
    /\ unlocks # <<>>
    /\ UnlocksHaveTransfers
    /\ messages # <<>>
    /\ Len(participants) > 1

---------------------------------------------------------------------------
(* One thread of direct messages, with gifts *)

\* the amounts user 1 gifts in the thread
GiftAmounts == {50}

\* user 1 on connection 1 and user 2 on connection 2 write to each other,
\* user 1 gifts user 2 coins, and an unlock's lifetime may pass
NextGift ==
    \/ \E sid \in Sids : Connect(sid, sid)
    \/ PassTime(UNLOCK_TTL)
    \/ \E sid \in Sids :
          /\ Len(messages) + MessagesInFlight < MaxGiftMessages
          /\ \E to_id \in Payers \ {connUser[sid]} : SendMessage(sid, "hi", to_id, NoRoom)
    \/ \E sid \in Sids : DmUnlock(sid)
    \/ \E sid \in Sids : DmLastReply(sid)
    \/ \E sid \in Sids : DmCount(sid)
    \/ \E sid \in Sids : SmInsert(sid)
    \/ \E sid \in Sids : SmEmit(sid)
    \/ \E sid \in Sids : SmFail(sid)
    \/ \E amount \in GiftAmounts : SendCoins(1, 2, amount)
    \/ \E sid \in Sids : ScGet(sid)
    \/ \E sid \in Sids : ScFlush(sid)
    \/ \E sid \in Sids : ScCommit(sid)
    \/ \E sid \in Sids : ScEmit(sid)
    \/ \E sid \in Sids : ScFail(sid)

InitGift == InitWith(0)

SpecGift == InitGift /\ [][NextGift]_vars

\* the dm_unlocks rows s -> r that have not expired
ActiveUnlockRows(s, r) ==
    {i \in UnlockRows(s, r) :
        unlocks[i].expires_at = None \/ unlocks[i].expires_at > now}

\* C11: the gate lets a direct message through, whatever the count of
\* unanswered messages, when a dm_unlocks row sender -> recipient exists whose
\* expiry is null or later than now; with no such row (none at all, or only
\* expired ones) it goes on to the last reply and lets the message through
\* exactly when fewer than 3 messages were sent since that reply.
C11_UnlockOverridesCount ==
    [][\A sid \in Sids :
          LET s == connUser[sid]
              r == req[sid].recipient_id
          IN  /\ (pc[sid] = "dm_unlock" /\ HandlerStep(sid)) =>
                    IF ActiveUnlockRows(s, r) # {}
                    THEN pc'[sid] = "sm_insert"
                    ELSE pc'[sid] = "dm_reply"
              /\ (pc[sid] = "dm_reply" /\ HandlerStep(sid)) =>
                    /\ pc'[sid] = "dm_count"
                    /\ \A i \in Sent(r, s) : messages[i].created_at <= loc'[sid].since
              /\ (pc[sid] = "dm_count" /\ HandlerStep(sid)) =>
                    IF Cardinality({i \in Sent(s, r) :
                                       messages[i].created_at > loc[sid].since}) < 3
                    THEN pc'[sid] = "sm_insert"
                    ELSE pc'[sid] = "done" /\ out'[sid] = Blocked(s)]_vars

\* the sender got a fourth unanswered message through while its unlock was
\* active and is blocked now that the unlock has expired
C11_Witness ==
    \E sid \in Sids :
        /\ pc[sid] = "done"
        /\ req[sid].ev = "send_message"
        /\ out[sid] = Blocked(connUser[sid])
        /\ UnlockRows(connUser[sid], req[sid].recipient_id) # {}
        /\ ActiveUnlockRows(connUser[sid], req[sid].recipient_id) = {}
        /\ Sent(req[sid].recipient_id, connUser[sid]) = {}
        /\ Cardinality(Sent(connUser[sid], req[sid].recipient_id)) >= 4

\* C13: a sender with 3 unanswered messages, no reply and no unlock is
\* blocked and its message is not persisted; once the sender has transferred
\* coins to the recipient, and for the 30 days that follow, its direct
\* messages pass the gate at the unlock query and are persisted, however
\* many are unanswered.
C13_GiftUnlocksThread ==
    [][\A sid \in Sids :
          LET s == connUser[sid]
              r == req[sid].recipient_id
          IN  /\ (/\ pc[sid] = "dm_count"
                  /\ HandlerStep(sid)
                  /\ NoUnlockNoReply(sid)
                  /\ Cardinality(Sent(s, r)) = 3) =>
                     /\ pc'[sid] = "done"
                     /\ out'[sid] = Blocked(s)
                     /\ messages' = messages
              /\ (/\ pc[sid] = "dm_unlock"
                  /\ HandlerStep(sid)
                  /\ Transfers(s, r) # {}
                  /\ now < UNLOCK_TTL) =>
                     pc'[sid] = "sm_insert"
              /\ (/\ pc[sid] = "sm_insert"
                  /\ HandlerStep(sid)
                  /\ dbWriter = NoSid) =>
                     /\ pc'[sid] = "sm_emit"
                     /\ Len(messages') = Len(messages) + 1
                     /\ messages'[Len(messages')].sender_id = s
                     /\ messages'[Len(messages')].recipient_id = r]_vars

\* user 1 sent 3 unanswered messages, then gifted 50 coins, and its 4th and
\* 5th message are persisted
C13_Witness ==
    /\ Len(messages) = 5
    /\ \A i \in DOMAIN messages :
          messages[i].sender_id = 1 /\ messages[i].recipient_id = 2
    /\ ledger = <<[from_id |-> 1, to_id |-> 2, amount |-> 50]>>
    /\ unlocks = <<[user_id |-> 1, target_id |-> 2, expires_at |-> 3 + UNLOCK_TTL]>>
    /\ coins[1] = DEFAULT_COINS - 50
    /\ coins[2] = DEFAULT_COINS + 50

---------------------------------------------------------------------------
(* One thread of direct messages *)

\* user 1 on connection 1 and user 2 on connection 2 write to each other
NextThread ==
    \/ \E sid \in Sids : Connect(sid, sid)
    \/ \E sid \in Sids :
          /\ Len(messages) + MessagesInFlight < MaxThreadMessages
          /\ \E to_id \in Payers \ {connUser[sid]} : SendMessage(sid, "hi", to_id, NoRoom)
    \/ \E sid \in Sids : DmUnlock(sid)
    \/ \E sid \in Sids : DmLastReply(sid)
    \/ \E sid \in Sids : DmCount(sid)
    \/ \E sid \in Sids : SmInsert(sid)
    \/ \E sid \in Sids : SmEmit(sid)

InitThread == InitWith(0)

SpecThread == InitThread /\ [][NextThread]_vars

\* position of the last message r sent to s, or 0
LastReplyPos(s, r) ==
    IF Sent(r, s) = {} THEN 0
    ELSE CHOOSE i \in Sent(r, s) : \A j \in Sent(r, s) : j <= i

\* the messages s sent to r after r's last message to s
Unanswered(s, r) == Cardinality({i \in Sent(s, r) : i > LastReplyPos(s, r)})

\* C12: a reply resets the free-message window.  A direct message of sender
\* s that reaches the count of the gate with r's latest reply taken into
\* account is let through while fewer than 3 messages of s follow that
\* reply, and is blocked, without being persisted, once 3 do; so after
\* being blocked, one reply of r gives s 3 more messages.
C12_ReplyResetsWindow ==
    [][\A sid \in Sids :
          LET s == connUser[sid]
              r == req[sid].recipient_id
          IN  (/\ pc[sid] = "dm_count"
               /\ HandlerStep(sid)
               /\ \A i \in Sent(r, s) : messages[i].created_at <= loc[sid].since) =>
                  /\ messages' = messages
                  /\ Unanswered(s, r) < 3 => pc'[sid] = "sm_insert"
                  /\ Unanswered(s, r) >= 3 =>
                        pc'[sid] = "done" /\ out'[sid] = Blocked(s)]_vars

\* s sent 3 messages, r replied once, s sent 3 more and is blocked again
C12_Witness ==
    \E sid \in Sids :
        LET s == connUser[sid]
            r == req[sid].recipient_id
        IN  /\ pc[sid] = "done"
            /\ req[sid].ev = "send_message"
            /\ out[sid] = Blocked(s)
            /\ unlocks = <<>>
            /\ Len(messages) = 7
            /\ messages[4].sender_id = r
            /\ \A i \in (1 .. 7) \ {4} : messages[i].sender_id = s

---------------------------------------------------------------------------
(* Joining and leaving a voice room *)

\* users 1 and 2, each on one or both connections, join and leave voice
\* room 1, which user 1 created, and accept each other onto the stage
NextRejoin ==
    \/ \E sid \in Sids, u \in Payers : Connect(sid, u)
    \/ \E sid \in Sids, room_id \in VoiceRooms : VoiceJoin(sid, room_id)
    \/ \E sid \in Sids : VjInsert(sid)
    \/ \E sid \in Sids : VjEmit(sid)
    \/ \E sid \in Sids, room_id \in VoiceRooms : VoiceLeave(sid, room_id)
    \/ \E sid \in Sids : VlDelete(sid)
    \/ \E sid \in Sids, room_id \in VoiceRooms, target_id \in Payers :
          VoiceStageDecision(sid, room_id, target_id, TRUE)
    \/ \E sid \in Sids : VsdGet(sid)
    \/ \E sid \in Sids : VsdCommit(sid)

InitRejoin == InitWith(0)

SpecRejoin == InitRejoin /\ [][NextRejoin]_vars

\* C14: there is at most one voice_participants row per (room, user) pair.
C14_OneRowPerPair ==
    \A room_id \in VoiceRooms, u \in Users : Cardinality(VpRows(room_id, u)) <= 1

Joined(room_id, u, role) ==
    <<Ev("voice_user_joined", VoiceRoomName(room_id), <<u, role>>)>>

\* C15: voice_leave removes every row of the user in the room, whatever its
\* role was, and the voice_join of a user without a row adds exactly one row,
\* with role listener; so join, leave, join ends with one listener row.
C15_RejoinIsListener ==
    [][\A sid \in Sids :
          LET u == connUser[sid]
              room_id == req[sid].room_id
          IN  /\ (pc[sid] = "vl_delete" /\ HandlerStep(sid)) =>
                    /\ VpRows(room_id, u)' = {}
                    /\ pc'[sid] = "done"
              /\ (/\ pc[sid] = "vj_insert"
                  /\ HandlerStep(sid)
                  /\ VpRows(room_id, u) = {}) =>
                    /\ Cardinality(VpRows(room_id, u)') = 1
                    /\ \A i \in VpRows(room_id, u)' : participants'[i].role = "listener"
                    /\ Len(participants') = Len(participants) + 1]_vars

\* the creator of the room, its host, has left and joined again, and holds
\* one row, as listener
C15_Witness ==
    \E sid \in Sids :
        /\ connUser[sid] = RoomCreator
        /\ pc[sid] = "done"
        /\ req[sid].ev = "voice_join"
        /\ out[sid] = Joined(req[sid].room_id, RoomCreator, "listener")
        /\ Cardinality(VpRows(req[sid].room_id, RoomCreator)) = 1
        /\ \A i \in VpRows(req[sid].room_id, RoomCreator) :
              participants[i].role = "listener"

\* sid's handler takes the first step of a voice_join
VoiceJoinStarts(sid) ==
    Idle(sid) /\ HandlerStep(sid) /\ req'[sid].ev = "voice_join"

\* C16: the voice_join of a user that has a row in the room changes no row
\* and emits voice_user_joined with the role the row holds; only a user
\* without a row gets one, as listener.
C16_JoinKeepsRole ==
    [][\A sid \in Sids :
          LET u == connUser[sid]
              room_id == req'[sid].room_id
          IN  /\ (VoiceJoinStarts(sid) /\ VpRows(room_id, u) # {}) =>
                    /\ participants' = participants
                    /\ pc'[sid] = "done"
                    /\ \E i \in VpRows(room_id, u) :
                          out'[sid] = Joined(room_id, u, participants[i].role)
              /\ (VoiceJoinStarts(sid) /\ VpRows(room_id, u) = {}) =>
                    /\ participants' = participants
                    /\ pc'[sid] = "vj_insert"
              /\ (/\ participants' # participants
                  /\ HandlerStep(sid)
                  /\ req'[sid].ev = "voice_join") =>
                    /\ Len(participants') = Len(participants) + 1
                    /\ participants'[Len(participants')].role = "listener"
                    /\ participants'[Len(participants')].user_id = u
                    /\ \A i \in DOMAIN participants : participants'[i] = participants[i]]_vars

\* a speaker joined again and was announced as speaker
C16_Witness ==
    \E sid \in Sids :
        /\ pc[sid] = "done"
        /\ req[sid].ev = "voice_join"
        /\ out[sid] = Joined(req[sid].room_id, connUser[sid], "speaker")
        /\ \A i \in VpRows(req[sid].room_id, connUser[sid]) :
              participants[i].role = "speaker"

---------------------------------------------------------------------------
(* Connections without an identity, and the remaining events *)

\* the identity of an open connection whose session resolves to no user
Anonymous == 99

\* sio_connect without a user: the connection is accepted and joins the lobby
ConnectAnonymous(sid) ==
    /\ connUser[sid] = NoUser
    /\ pc[sid] = "idle"
    /\ connUser' = [connUser EXCEPT ![sid] = Anonymous]
    /\ rooms' = [rooms EXCEPT ![sid] = {"lobby"}]
    /\ out' = [out EXCEPT ![sid] = <<>>]
    /\ UNCHANGED <<dbVars, now, pc, req, loc, response>>

\* the events whose handlers authenticated_only wraps
AuthenticatedOnlyEvents ==
    {"send_coins", "lobby_voice_invite", "voice_join", "voice_leave",
     "voice_request_stage", "voice_stage_decision", "voice_comment",
     "webrtc-offer", "webrtc-answer", "webrtc-ice-candidate"}

AuthenticatedOnlyMut(sid, ev) ==
    /\ Idle(sid)
    /\ connUser[sid] # NoUser
    /\ ~Authenticated(sid)
    /\ Begin(sid, [ev |-> ev], NoLoc, "done",
             <<Ev("blocked_message", "lobby", <<"Not authenticated.">>)>>)
    /\ UNCHANGED <<dbVars, now, connVars>>

\* authenticated_only on a connection without a user: disconnect(), which
\* closes the connection; sio_disconnect then finds no user and does nothing
AuthenticatedOnly(sid, ev) ==
    /\ Idle(sid)
    /\ connUser[sid] # NoUser
    /\ ~Authenticated(sid)
    /\ connUser' = [connUser EXCEPT ![sid] = NoUser]
    /\ rooms' = [rooms EXCEPT ![sid] = {}]
    /\ Begin(sid, [ev |-> ev], NoLoc, "idle", <<>>)
    /\ UNCHANGED <<dbVars, now>>

\* sio_join_room
JoinRoom(sid, room) ==
    /\ Idle(sid)
    /\ connUser[sid] # NoUser
    /\ rooms' = [rooms EXCEPT ![sid] = IF room = "" THEN @ ELSE @ \cup {room}]
    /\ Begin(sid, [ev |-> "join_room", room |-> room], NoLoc, "done", <<>>)
    /\ UNCHANGED <<dbVars, now, connUser>>

\* sio_lobby_voice_invite; the data names the sender and the connection
\* skip_sid leaves out
LobbyVoiceInvite(sid) ==
    /\ Idle(sid)
    /\ Authenticated(sid)
    /\ Begin(sid, [ev |-> "lobby_voice_invite"], NoLoc, "done",
             <<Ev("lobby_voice_invite", "lobby", <<connUser[sid], SidRoom(sid)>>)>>)
    /\ UNCHANGED <<dbVars, now, connVars>>

\* sio_voice_request_stage: one event to each host of the room
VoiceRequestStage(sid, room_id) ==
    /\ Idle(sid)
    /\ Authenticated(sid)
    /\ LET hosts == SelectSeq(participants,
                        LAMBDA r : r.room_id = room_id /\ r.role = "host")
       IN  Begin(sid, [ev |-> "voice_request_stage", room_id |-> room_id], NoLoc, "done",
                 [k \in DOMAIN hosts |->
                     Ev("voice_stage_request", Str(hosts[k].user_id),
                        <<connUser[sid], room_id>>)])
    /\ UNCHANGED <<dbVars, now, connVars>>

\* sio_voice_comment up to its insert
VoiceComment(sid, room_id, body) ==
    /\ Idle(sid)
    /\ Authenticated(sid)
    /\ LET r == [ev |-> "voice_comment", room_id |-> room_id, body |-> body]
       IN  IF body = ""
           THEN Begin(sid, r, NoLoc, "done", <<>>)
           ELSE Begin(sid, r, NoLoc, "vc_insert", <<>>)
    /\ UNCHANGED <<dbVars, now, connVars>>

\* db.session.add(vc); db.session.commit(); emit
VcInsert(sid) ==
    /\ pc[sid] = "vc_insert"
    /\ CanWrite(sid)
    /\ comments' = Append(comments,
           [room_id |-> req[sid].room_id, user_id |-> connUser[sid],
            body |-> req[sid].body])
    /\ Step(sid, loc[sid], "done",
            <<Ev("voice_comment", VoiceRoomName(req[sid].room_id),
                 <<connUser[sid], req[sid].body>>)>>)
    /\ UNCHANGED <<coins, status, ledger, unlocks, messages, participants,
                   dbWriter, now, connVars>>

\* the except branch: db.session.rollback(), and no event
VcFail(sid) ==
    /\ pc[sid] = "vc_insert"
    /\ dbWriter \notin {NoSid, sid}
    /\ Step(sid, loc[sid], "done", <<>>)
    /\ UNCHANGED <<dbVars, now, connVars>>

WebrtcEvents == {"webrtc-offer", "webrtc-answer", "webrtc-ice-candidate"}

\* sio_offer, sio_answer, sio_ice
Webrtc(sid, ev, to_id) ==
    /\ Idle(sid)
    /\ Authenticated(sid)
    /\ Begin(sid, [ev |-> ev, to |-> to_id], NoLoc, "done",
             <<Ev(ev, Str(to_id), <<connUser[sid]>>)>>)
    /\ UNCHANGED <<dbVars, now, connVars>>

---------------------------------------------------------------------------
(* The gateway: every event, on connections with and without an identity *)

\* voice_comments rows
MaxComments == 1

\* the rooms asked for with join_room: user 2's room and voice room 1
GatewayRooms == {Str(2), VoiceRoomName(1)}

\* the transfers tried: to an id without a row, within and beyond the balance
GatewayAmounts == {400, DEFAULT_COINS + 100}

\* connection 1 is user 1's or anonymous and connection 2 is user 2's;
\* voice room 1 has a full stage
NextGateway ==
    \/ \E sid \in Sids : Connect(sid, sid)
    \/ ConnectAnonymous(1)
    \/ \E sid \in Sids, ev \in AuthenticatedOnlyEvents : AuthenticatedOnly(sid, ev)
    \/ \E sid \in Sids, room \in GatewayRooms : JoinRoom(sid, room)
    \/ \E sid \in Sids, body \in Bodies :
          /\ Len(messages) + MessagesInFlight < MaxEventMessages
          /\ \E to_id \in Payers \ {connUser[sid]} : SendMessage(sid, body, to_id, NoRoom)
    \/ \E sid \in Sids : DmUnlock(sid)
    \/ \E sid \in Sids : DmLastReply(sid)
    \/ \E sid \in Sids : DmCount(sid)
    \/ \E sid \in Sids : SmInsert(sid)
    \/ \E sid \in Sids : SmEmit(sid)
    \/ \E sid \in Sids, amount \in GatewayAmounts : SendCoins(sid, GhostUser, amount)
    \/ \E sid \in Sids : ScGet(sid)
    \/ \E sid \in Sids : LobbyVoiceInvite(sid)
    \/ \E sid \in Sids, room_id \in VoiceRooms : VoiceRequestStage(sid, room_id)
    \/ \E sid \in Sids, room_id \in VoiceRooms, body \in Bodies :
          /\ Len(comments) + Cardinality({s \in Sids : pc[s] = "vc_insert"}) < MaxComments
          /\ VoiceComment(sid, room_id, body)
    \/ \E sid \in Sids : VcInsert(sid)
    \/ \E sid \in Sids, ev \in WebrtcEvents :
          \E to_id \in Payers \ {connUser[sid]} : Webrtc(sid, ev, to_id)
    \/ \E sid \in Sids, room_id \in VoiceRooms : VoiceJoin(sid, room_id)
    \/ \E sid \in Sids : VjInsert(sid)
    \/ \E sid \in Sids : VjEmit(sid)
    \/ \E sid \in Sids, room_id \in VoiceRooms :
          VoiceStageDecision(sid, room_id, connUser[sid], TRUE)

InitGateway == InitWith(MAX_STAGE)

SpecGateway == InitGateway /\ [][NextGateway]_vars

PublishingEvents == AuthenticatedOnlyEvents \cup {"send_message"}

NotAuthenticated(sid) ==
    <<Ev("blocked_message", SidRoom(sid), <<"Not authenticated.">>)>>

\* sid's handler takes a step of a publishing event on a connection without
\* an identity
AnonymousPublishes(sid) ==
    /\ connUser[sid] = Anonymous
    /\ HandlerStep(sid)
    /\ req'[sid].ev \in PublishingEvents

C18_AnonymousOnlyInLobby ==
    \A sid \in Sids : connUser[sid] = Anonymous => rooms[sid] \subseteq {"lobby"}

\* the connections, open once the step is taken, that an event the step
\* emits to room `to` is delivered to
ReceiversAfter(to) ==
    {s \in Sids : connUser'[s] # NoUser
                    /\ (to = "*" \/ to = SidRoom(s) \/ to \in rooms'[s])}

\* sid's handler rejects its event in this step: not authenticated, direct
\* message locked, insufficient funds, unknown recipient or stage full
Rejects(sid) ==
    \/ AnonymousPublishes(sid)
    \/ pc[sid] = "dm_count" /\ pc'[sid] = "done"
    \/ /\ SendCoinsStep(sid)
       /\ Idle(sid)
       /\ Authenticated(sid)
       /\ req'[sid].amount > 0
       /\ coins[connUser[sid]] < req'[sid].amount
    \/ pc[sid] = "sc_get" /\ pc'[sid] = "done" /\ req[sid].to \notin Users
    \/ AcceptsAtFullStage(sid)

\* sid's handler drops a blank message or comment in this step
DropsBlank(sid) ==
    /\ Idle(sid)
    /\ HandlerStep(sid)
    /\ Authenticated(sid)
    /\ req'[sid].ev \in {"send_message", "voice_comment"}
    /\ req'[sid].body = ""

\* C20: a rejection emits exactly one event, delivered to the connection the
\* rejected event came from and to no other; a blank message or comment is
\* dropped with no event.
C20_OneRejectionToInitiator ==
    [][\A sid \in Sids :
          /\ Rejects(sid) =>
                /\ Len(out'[sid]) = 1
                /\ ReceiversAfter(out'[sid][1].to) = {sid}
          /\ DropsBlank(sid) => pc'[sid] = "done" /\ out'[sid] = <<>>]_vars

---------------------------------------------------------------------------
(* Claims about the order of delivery *)

\* sid's handler emits the new_message events of its message in this step
EmitsMessage(sid) == pc[sid] = "sm_emit" /\ pc'[sid] = "done"

\* C19: new_message events reach a room in the order their messages rows
\* were committed: when a handler emits the events of its message, no
\* message committed earlier and emitted to one of the same rooms is still
\* to be emitted.
C19_DeliveryInCommitOrder ==
    [][\A sid \in Sids : EmitsMessage(sid) =>
          \A s \in Sids \ {sid} :
             (/\ pc[s] = "sm_emit"
              /\ \E k \in DOMAIN out'[sid] :
                    \E j \in DOMAIN MessageTargets(connUser[s], req[s].recipient_id,
                                                   req[s].room) :
                       out'[sid][k].to = MessageTargets(connUser[s],
                                              req[s].recipient_id, req[s].room)[j]) =>
                 loc[s].msg > loc[sid].msg]_vars

---------------------------------------------------------------------------
(* GET /api/messages *)

HISTORY_LIMIT == 100

\* stored messages beyond the limit
MaxHistoryExcess == 2

\* order_by(Message.created_at.asc()): does m come before o; rows created
\* at the same instant come in rowid order
CreatedBefore(m, o) ==
    \/ m.created_at < o.created_at
    \/ m.created_at = o.created_at /\ m.id < o.id

\* the rows in that order: each row at the position that the number of rows
\* before it gives
OrderByCreatedAt(rows) ==
    LET ranked == {<<1 + Cardinality({j \in DOMAIN rows :
                                         CreatedBefore(rows[j], rows[i])}), i>> :
                       i \in DOMAIN rows}
    IN  [k \in DOMAIN rows |-> rows[(CHOOSE p \in ranked : p[1] = k)[2]]]

LimitMut(rows, n) == rows

\* query.limit(n)
Limit(rows, n) == IF Len(rows) <= n THEN rows ELSE SubSeq(rows, 1, n)

\* the filter of the query: by room when one is given, else the messages
\* between current_user and recipient_id in either direction
HistoryFilter(me, room, recipient_id, m) ==
    IF room # NoRoom THEN m.room = room
    ELSE \/ m.sender_id = me /\ m.recipient_id = recipient_id
         \/ m.sender_id = recipient_id /\ m.recipient_id = me

\* api_messages for current_user me; recipient_id is None when the argument
\* is absent, not an integer, or 0
ApiMessages(me, room, recipient_id) ==
    /\ response' =
           IF room = NoRoom /\ recipient_id = None
           THEN [me |-> me, room |-> room, recipient_id |-> recipient_id,
                 status |-> 400, error |-> "room or recipient_id required",
                 messages |-> <<>>]
           ELSE [me |-> me, room |-> room, recipient_id |-> recipient_id,
                 status |-> 200, error |-> "",
                 messages |->
                     Limit(OrderByCreatedAt(
                               SelectSeq(messages,
                                   LAMBDA m : HistoryFilter(me, room, recipient_id, m))),
                           HISTORY_LIMIT)]
    /\ UNCHANGED <<dbVars, now, connVars, handlerVars>>

\* the numbers of stored messages: a few, and around the limit
HistorySizes == 0..2 \cup (HISTORY_LIMIT - 1)..(HISTORY_LIMIT + MaxHistoryExcess)

HistoryShapes == {"lobby", "thread", "mixed"}

\* the i-th stored message of a history: lobby messages of all users; one
\* direct thread of users 1 and 2 whose neighbouring handlers read the clock
\* in the other order than they inserted; lobby messages and two threads
HistoryRow(i, shape) ==
    IF shape = "lobby"
    THEN [id |-> i, sender_id |-> 1 + (i % 3), recipient_id |-> None,
          room |-> "lobby", created_at |-> i]
    ELSE IF shape = "thread"
    THEN [id |-> i, sender_id |-> 1 + (i % 2), recipient_id |-> 2 - (i % 2),
          room |-> NoRoom,
          created_at |-> IF i % 2 = 1 THEN i + 1 ELSE i - 1]
    ELSE IF i % 3 = 0
    THEN [id |-> i, sender_id |-> 3, recipient_id |-> None,
          room |-> "lobby", created_at |-> i]
    ELSE [id |-> i, sender_id |-> i % 3, recipient_id |-> 1 + (i % 3),
          room |-> NoRoom, created_at |-> i]

HistoryRooms == {NoRoom, "lobby", VoiceRoomName(1)}

HistoryRecipients == {None} \cup Users

NextHistory ==
    \E me \in Users, room \in HistoryRooms, recipient_id \in HistoryRecipients :
        ApiMessages(me, room, recipient_id)

InitHistory ==
    \E n \in HistorySizes, shape \in HistoryShapes :
        /\ coins = [u \in Users |-> DEFAULT_COINS]
        /\ status = [u \in Users |-> "offline"]
        /\ ledger = <<>>
        /\ unlocks = <<>>
        /\ messages = [i \in 1..n |-> HistoryRow(i, shape)]
        /\ participants = InitParticipants(0)
        /\ comments = <<>>
        /\ dbWriter = NoSid
        /\ now = n + 2
        /\ connUser = [s \in Sids |-> NoUser]
        /\ rooms = [s \in Sids |-> {}]
        /\ pc = [s \in Sids |-> "idle"]
        /\ req = [s \in Sids |-> NoReq]
        /\ loc = [s \in Sids |-> NoLoc]
        /\ out = [s \in Sids |-> <<>>]
        /\ response = NoResponse

SpecHistory == InitHistory /\ [][NextHistory]_vars

\* a returned message was exchanged between users a and b
Between(m, a, b) ==
    \/ m.sender_id = a /\ m.recipient_id = b
    \/ m.sender_id = b /\ m.recipient_id = a

\* C21: a history fetch for a room returns only messages of that room, a
\* fetch for a recipient only messages between the caller and the recipient
\* in either direction; the messages returned are stored ones, in ascending
\* order of creation, and at most 100; a fetch with neither room nor
\* recipient_id is answered with an error and no messages
C21_HistoryIsFiltered ==
    response # NoResponse =>
        LET got == response.messages
        IN  /\ \A k \in DOMAIN got : \E i \in DOMAIN messages : messages[i] = got[k]
            /\ response.room # NoRoom =>
                   \A k \in DOMAIN got : got[k].room = response.room
            /\ response.room = NoRoom /\ response.recipient_id # None =>
                   \A k \in DOMAIN got :
                       Between(got[k], response.me, response.recipient_id)
            /\ \A j, k \in DOMAIN got :
                   j < k => got[j].created_at <= got[k].created_at
            /\ Len(got) <= HISTORY_LIMIT
            /\ response.room = NoRoom /\ response.recipient_id = None =>
                   /\ response.status = 400
                   /\ response.error # ""
                   /\ got = <<>>

\* a thread longer than the limit, created out of rowid order, is fetched
C21_Witness ==
    /\ response # NoResponse
    /\ response.status = 200
    /\ response.room = NoRoom
    /\ Len(response.messages) = HISTORY_LIMIT
    /\ Len(messages) > HISTORY_LIMIT
    /\ \E i \in DOMAIN messages :
           i < Len(messages) /\ messages[i].created_at > messages[i + 1].created_at
    /\ \A i \in DOMAIN messages :
           Between(messages[i], response.me, response.recipient_id)

---------------------------------------------------------------------------
(* disconnect *)

\* sio_disconnect: the connection closes and leaves its rooms; with a session
\* user, that user is stored as offline and the status is broadcast, whatever
\* other connections the user has; the commit waits for the write lock
Disconnect(sid) ==
    /\ Idle(sid)
    /\ connUser[sid] # NoUser
    /\ CanWrite(sid)
    /\ connUser' = [connUser EXCEPT ![sid] = NoUser]
    /\ rooms' = [rooms EXCEPT ![sid] = {}]
    /\ IF Authenticated(sid)
       THEN /\ status' = [status EXCEPT ![connUser[sid]] = "offline"]
            /\ Begin(sid, [ev |-> "disconnect"], NoLoc, "idle",
                     <<Ev("status", "*", <<connUser[sid], "offline">>)>>)
       ELSE /\ UNCHANGED status
            /\ Begin(sid, [ev |-> "disconnect"], NoLoc, "idle", <<>>)
    /\ UNCHANGED <<coins, ledger, unlocks, messages, participants, comments,
                   dbWriter, now>>

\* connections open, with a session user or without, and close
NextPresence ==
    \/ \E sid \in Sids, u \in Users : Connect(sid, u)
    \/ \E sid \in Sids : ConnectAnonymous(sid)
    \/ \E sid \in Sids : Disconnect(sid)

InitPresence == InitWith(0)

SpecPresence == InitPresence /\ [][NextPresence]_vars

\* C22: a user with at least one open authenticated connection is stored as
\* online; the stored status is offline only for a user with none
C22_PresenceTracksConnections ==
    \A u \in Users :
        (\E sid \in Sids : connUser[sid] = u) => status[u] = "online"

---------------------------------------------------------------------------
(* The free-message limit under concurrent senders *)

\* C23: for a pair (sender, recipient) without an unlock row, the persisted
\* sender -> recipient messages created after the recipient's latest reply
\* are never more than the free-message limit, however send_message handlers
\* interleave
C23_FreeLimitHolds ==
    \A s \in Payers, r \in Payers :
        (s # r /\ UnlockRows(s, r) = {}) => Unanswered(s, r) <= DM_FREE_MSG_LIMIT

---------------------------------------------------------------------------
(* Direct messages that name a room *)

\* the room fields of the payloads: none, and the lobby
PrivateRooms == {NoRoom, "lobby"}

\* users connect and send direct messages, with a room field or without
NextPrivate ==
    \/ \E sid \in Sids, u \in Users : Connect(sid, u)
    \/ \E sid \in Sids, room \in PrivateRooms :
          /\ Len(messages) + MessagesInFlight < MaxEventMessages
          /\ \E to_id \in Users \ {connUser[sid]} : SendMessage(sid, "hi", to_id, room)
    \/ \E sid \in Sids : DmUnlock(sid)
    \/ \E sid \in Sids : DmLastReply(sid)
    \/ \E sid \in Sids : DmCount(sid)
    \/ \E sid \in Sids : SmInsert(sid)
    \/ \E sid \in Sids : SmEmit(sid)

InitPrivate == InitWith(0)

SpecPrivate == InitPrivate /\ [][NextPrivate]_vars

\* C24: the new_message events of a message persisted with a recipient_id,
\* with a room field in its payload or without, are delivered only to
\* connections of the message's sender and of its recipient
C24_DirectMessageIsPrivate ==
    [][\A sid \in Sids :
          (EmitsMessage(sid) /\ req[sid].recipient_id # None) =>
              \A k \in DOMAIN out'[sid] :
                  out'[sid][k].name = "new_message" =>
                      \A s \in ReceiversAfter(out'[sid][k].to) :
                          connUser[s] \in {connUser[sid], req[sid].recipient_id}]_vars

---------------------------------------------------------------------------
(* Claims about stage decisions *)

\* sid's voice_stage_decision handler ends in this step with a grant emitted
EmitsGrant(sid) ==
    /\ pc[sid] \in {"vsd_get", "vsd_commit"}
    /\ pc'[sid] = "done"
    /\ \E k \in DOMAIN out'[sid] : out'[sid][k].name = "voice_stage_granted"

\* C25: when voice_stage_granted is emitted for (room, target), the target
\* has a voice_participants row in that room with role speaker at that
\* moment; in particular a decision that accepts a target without a row
\* emits no grant
C25_GrantMeansSpeaker ==
    [][\A sid \in Sids : EmitsGrant(sid) =>
          \E i \in DOMAIN participants' :
              /\ participants'[i].room_id = req[sid].room_id
              /\ participants'[i].user_id = req[sid].user_id
              /\ participants'[i].role = "speaker"]_vars


\* C26: a voice_participants row with role host keeps that role as long as
\* it exists: no voice_join, voice_request_stage or voice_stage_decision
\* event makes its holder a speaker or a listener
C26_HostKeepsRole ==
    [][\A i \in DOMAIN participants :
          participants[i].role = "host" =>
              \A j \in DOMAIN participants' :
                  participants'[j].id = participants[i].id =>
                      participants'[j].role = "host"]_vars

=============================================================================
